---- MODULE Spec2Model ----
(***************************************************************************)
(* Model of the leaderboard engine of working-plusplus                     *)
(* (src/src/leaderboard.ts) and of the Slack helpers it calls              *)
(* (src/unnamed/part_000, the slack module).                               *)
(*                                                                         *)
(* One engine call is served at a time (pc, op).  The loops of rankItems   *)
(* and userScores advance one row per step; the Slack calls a step awaits  *)
(* answer "ok", "notok" ({ok: false}) or "reject" (the promise rejects).   *)
(* The retrieval collaborators of ./points are the environment: each call  *)
(* either fails or returns data drawn from bounded sets.                   *)
(*                                                                         *)
(* A JavaScript value that may be undefined is a sequence of length at     *)
(* most one: Undefined is <<>>, and Def(x) is <<x>>.                       *)
(***************************************************************************)
EXTENDS Integers, Sequences, FiniteSets, TLC

\* ------------------------------------------------------------------ bounds

\* Longest list of score rows handed to rankItems.
MaxRows == 3
\* Longest list of score events handed to userScores.
MaxEvents == 2
\* Longest received ledger, and longest given ledger, of a profile.
MaxFeed == 2
\* Calls of the slack module's user functions that can be in progress at once.
NumCallers == 2
\* POST requests that carry one event: its delivery and the retries of it.
MaxDeliveries == 2

\* ------------------------------------------------------- values and helpers

Undefined == <<>>
Def(x) == <<x>>
IsDef(v) == v # Undefined
Val(v) == v[1]

\* Entity ids: three Slack-style user ids and one free-text item.
UserIds == {"U1", "U2", "U3"}
NamedItems == {"thing"}
EntityIds == UserIds \cup NamedItems

\* helpers.isUser: the entity-id format predicate.
isUser(item) == item \in UserIds

\* helpers.isPlural: "point" takes an s unless the magnitude is one.
isPlural(n) == n # 1 /\ n # -1

\* helpers.maybeLinkItem: a user id becomes a Slack mention.
maybeLinkItem(item) == IF isUser(item) THEN "<@" \o item \o ">" ELSE item

\* item.substring(0, 1).toUpperCase() + item.substring(1), on the names of
\* this model.
TitleCase(s) ==
    CASE s = "alice" -> "Alice"
      [] s = "bob" -> "Bob"
      [] s = "thing" -> "Thing"
      [] OTHER -> s

\* ------------------------------------------------------ the Slack workspace

\* What users.list answers when ok: U1 has a real name, U2 has none, U3 is
\* not a member of the team.
SlackMembers ==
    [U1 |-> [name |-> "alice", real_name |-> "Alice A"],
     U2 |-> [name |-> "bob", real_name |-> ""]]
SlackMemberIds == DOMAIN SlackMembers

\* What conversations.list answers when ok: C9 is not in the list.
SlackChannels == [C1 |-> "general"]
ChannelIds == {"C1", "C9"}

SlackOutcomes == {"ok", "notok", "reject"}

Return(v, cache) == [status |-> "return", value |-> v, error |-> "none", users |-> cache]
Raise(e, cache) == [status |-> "throw", value |-> "", error |-> e, users |-> cache]

\* getUserList: the cache is returned when truthy; otherwise it is set to {}
\* before the fetch is awaited and filled when the fetch answers ok.
getUserList(cache, o) ==
    IF IsDef(cache) THEN Return(Val(cache), cache)
    ELSE CASE o = "ok" -> Return(SlackMemberIds, Def(SlackMemberIds))
           [] o = "notok" -> Raise("Error occurred retrieving user list from Slack.", Def({}))
           [] OTHER -> Raise("SlackRejected", Def({}))

\* The last line of getUserName: the handle when asked for or when no real
\* name is on file.
DisplayName(user, username) ==
    IF username \/ user.real_name = "" THEN user.name ELSE user.real_name

\* getUserName: o1 answers the fetch of getUserList, o2 the second fetch made
\* when the id is not in the cache.
getUserName(cache, userId, username, o1, o2) ==
    LET l == getUserList(cache, o1) IN
    IF l.status = "throw" THEN l
    ELSE IF userId \in l.value
         THEN Return(DisplayName(SlackMembers[userId], username), l.users)
    ELSE CASE o2 = "reject" -> Raise("SlackRejected", l.users)
           [] o2 = "notok" -> Raise("TypeError: userList.members is undefined", l.users)
           [] OTHER ->
                IF userId \in SlackMemberIds
                THEN Return(DisplayName(SlackMembers[userId], username), l.users)
                ELSE Return("(unknown)", l.users)

\* getChannelName: filter never yields undefined, so an id that is not in the
\* list makes channel[0].name throw.
getChannelName(channelId, o) ==
    CASE o = "reject" -> Raise("SlackRejected", Undefined)
      [] o = "notok" -> Raise("TypeError: channelList.channels is undefined", Undefined)
      [] OTHER ->
           IF channelId \in DOMAIN SlackChannels
           THEN Return(SlackChannels[channelId], Undefined)
           ELSE Raise("TypeError: channel[0] is undefined", Undefined)

\* ------------------------------------------------------------------ inputs

ScoreValues == {1, 8, 10}

\* Sequences over S of length at most n.
RECURSIVE SeqsUpTo(_, _)
SeqsUpTo(S, n) ==
    IF n = 0 THEN {<<>>}
    ELSE LET shorter == SeqsUpTo(S, n - 1) IN
         shorter \cup {Append(s, x) : s \in {t \in shorter : Len(t) = n - 1}, x \in S}

\* retrieveTopScores answers one row per distinct entity, in non-increasing
\* score order.
IsTopScores(ts) ==
    /\ \A a, b \in 1..Len(ts) : a < b => ts[a].score >= ts[b].score
    /\ \A a, b \in 1..Len(ts) : a # b => ts[a].item # ts[b].item

TopScoreLists ==
    {ts \in SeqsUpTo([item : EntityIds, score : ScoreValues], MaxRows) : IsTopScores(ts)}

ItemTypes == {"users", "things"}
Formats == {"slack", "object"}

\* ------------------------------------------------------------------- state

VARIABLES
    users,      \* slack module: the cached user list (Undefined, or the ids cached)
    pc,         \* where the engine call being served stands
    op,         \* the exported function that was called
    topScores,  \* rankItems / userScores: the rows being walked
    itemType,   \* rankItems: the kind being ranked
    format,     \* rankItems: 'slack' or 'object'
    i,          \* index of the row the loop is at
    items,      \* rankItems / userScores: the output list
    lastScore,  \* rankItems: score of the last entity emitted
    lastRank,   \* rankItems: rank of the last entity emitted
    ranked,     \* getUserProfile: what rankItems returned (const users)
    userId,     \* getUserProfile: the id getUserId resolved
    received,   \* the data source's received ledger of the profiled entity
    given,      \* the data source's given ledger of the profiled entity
    calls,      \* retrieval collaborators called by this engine call, in order
    failed,     \* the retrieval call that failed, or "none"
    result,     \* how the engine call ended
    callers,    \* slack module: the concurrent calls of getUserList / getUserName
    listFetches, \* slack module: users.list calls made by getUserList
    envRead,     \* app module: process.env has been read
    serverToken, \* app module: SLACK_VERIFICATION_TOKEN
    deliveries,  \* POST requests received so far, per event
    handledTimes, \* calls of events.handleEvent so far, per event
    post,        \* the POST request served last and what handlePost did with it
    send         \* slack module: the sendMessage / sendEphemeral call in progress

vars == <<users, pc, op, topScores, itemType, format, i, items, lastScore, lastRank,
          ranked, userId, received, given, calls, failed, result, callers, listFetches,
          envRead, serverToken, deliveries, handledTimes, post, send>>

\* The state outside the leaderboard engine.
appVars == <<envRead, serverToken, deliveries, handledTimes, post, send>>
outsideEngine == <<callers, listFetches, appVars>>

\* The locals of getUserProfile.
profileVars == <<ranked, userId, received, given>>

NoResult == [status |-> "pending", value |-> Undefined, error |-> "none"]

Callers == 1..NumCallers

\* The event Slack delivers, and the event of a request of any other client.
SlackEvents == {"app_mention"}
PostedEvents == SlackEvents \cup {"forged"}

\* No POST request has been served yet.
NoPost ==
    [served |-> FALSE, challenge |-> Undefined, token |-> Undefined, retry |-> Undefined,
     event |-> "forged", effects |-> <<>>, returned |-> "none"]

\* No sendMessage / sendEphemeral call is in progress.
NoSend == [pc |-> "idle", fn |-> "none", payload |-> {}, answer |-> "none", promise |-> "none"]

\* A caller that has no call of the slack module in progress.
IdleCaller ==
    [pc |-> "idle", fn |-> "none", userId |-> "none", username |-> FALSE,
     list |-> Undefined, out |-> NoResult]

Init ==
    /\ users = Undefined
    /\ pc = "idle"
    /\ op = "none"
    /\ topScores = <<>>
    /\ itemType = "users"
    /\ format = "slack"
    /\ i = 1
    /\ items = Undefined
    /\ lastScore = Undefined
    /\ lastRank = Undefined
    /\ ranked = Undefined
    /\ userId = Undefined
    /\ received = <<>>
    /\ given = <<>>
    /\ calls = <<>>
    /\ failed = "none"
    /\ result = NoResult
    /\ callers = [c \in Callers |-> IdleCaller]
    /\ listFetches = 0
    /\ envRead = FALSE
    /\ serverToken = Undefined
    /\ deliveries = [e \in PostedEvents |-> 0]
    /\ handledTimes = [e \in PostedEvents |-> 0]
    /\ post = NoPost
    /\ send = NoSend

\* ------------------------------------------------------- how a call ends

\* rankItems and userScores have no try block: an exception rejects the
\* promise they return.
Rejected(err) == [status |-> "throw", value |-> Undefined, error |-> err]

\* A catch block that throws the error on to the caller.
CatchRethrows(err) == [status |-> "throw", value |-> Undefined, error |-> err]

\* A catch block that answers with a profile of defaults.
CatchReturnsDefaults(err) ==
    [status |-> "return", value |-> Def([userRank |-> 0, activity |-> <<>>]), error |-> err]

\* catch (err) { console.error(err.message); } of the get* functions: the
\* error is logged and the function returns undefined.
Catch(err) == [status |-> "return", value |-> Undefined, error |-> err]

Returned(v) == [status |-> "return", value |-> v, error |-> "none"]

DirectOps == {"rankItems", "userScores"}

\* An exception thrown while op is served.
Thrown(err) == IF op \in DirectOps THEN Rejected(err) ELSE Catch(err)

\* ---------------------------------------------------------------- rankItems

\* let lastScore, lastRank, output; let items: Item[];  -- none is assigned.
InitialItems == Undefined

EnterRankItems(ts, type, fmt) ==
    /\ topScores' = ts
    /\ itemType' = type
    /\ format' = fmt
    /\ i' = 1
    /\ items' = InitialItems
    /\ lastScore' = Undefined
    /\ lastRank' = Undefined
    /\ pc' = "rank_filter"

CallRankItems ==
    /\ pc = "idle"
    /\ \E ts \in TopScoreLists, type \in ItemTypes, fmt \in Formats :
         EnterRankItems(ts, type, fmt)
    /\ op' = "rankItems"
    /\ calls' = <<>>
    /\ failed' = "none"
    /\ result' = NoResult
    /\ UNCHANGED <<users, profileVars>>
    /\ UNCHANGED outsideEngine

\* The skip condition as written: !isUser negates the imported function, which
\* is always truthy, so the second disjunct is never true.
SkipItem(item, type) ==
    \/ isUser(item) /\ "users" # type
    \/ FALSE /\ "users" = type

\* Loop head and the filter: a skipped row moves the loop on.
RankFilter ==
    /\ pc = "rank_filter"
    /\ i <= Len(topScores)
    /\ IF SkipItem(topScores[i].item, itemType)
       THEN i' = i + 1 /\ pc' = "rank_filter"
       ELSE i' = i /\ pc' = "rank_body"
    /\ UNCHANGED <<users, op, topScores, itemType, format, items, lastScore, lastRank,
                   profileVars, calls, failed, result>>
    /\ UNCHANGED outsideEngine

\* const rank = score.score === lastScore ? lastRank : items.length + 1;
\* reading .length of the undefined items throws.
Rank(score, its, lScore, lRank) ==
    IF IsDef(lScore) /\ Val(lScore) = score THEN lRank
    ELSE IF IsDef(its) THEN Def(Len(Val(its)) + 1)
    ELSE Undefined

\* The entry pushed for a row: a line of text for 'slack' (with the winner's
\* emoji on the first entry), a record for 'object'.
Output(fmt, rank, name, row, its) ==
    LET itemTitleCase == TitleCase(name)
        plural == IF isPlural(row.score) THEN "s" ELSE ""
    IN  IF fmt = "slack"
        THEN ToString(rank) \o ". " \o itemTitleCase \o " [" \o ToString(row.score)
             \o " point" \o plural \o "]"
             \o (IF Len(its) = 0
                 THEN " " \o (IF isUser(row.item) THEN ":muscle:" ELSE ":tada:")
                 ELSE "")
        ELSE [rank |-> rank,
              item |-> itemTitleCase,
              score |-> ToString(row.score) \o " point" \o plural,
              item_id |-> row.item]

\* The rest of the loop body for a row that was not skipped.
RankBody ==
    /\ pc = "rank_body"
    /\ \E o1, o2 \in SlackOutcomes :
         LET row == topScores[i]
             named == IF isUser(row.item)
                      THEN (IF format = "slack"
                            THEN Return(maybeLinkItem(row.item), users)
                            ELSE getUserName(users, row.item, FALSE, o1, o2))
                      ELSE Return(row.item, users)
             rank == Rank(row.score, items, lastScore, lastRank)
         IN  /\ users' = named.users
             /\ IF named.status = "throw"
                THEN /\ result' = Thrown(named.error)
                     /\ pc' = "done"
                     /\ UNCHANGED <<i, items, lastScore, lastRank>>
                ELSE IF ~IsDef(rank)
                THEN /\ result' = Thrown("TypeError: items is undefined")
                     /\ pc' = "done"
                     /\ UNCHANGED <<i, items, lastScore, lastRank>>
                ELSE /\ items' = Def(Append(Val(items),
                                            Output(format, Val(rank), named.value, row, Val(items))))
                     /\ lastRank' = rank
                     /\ lastScore' = Def(row.score)
                     /\ i' = i + 1
                     /\ pc' = "rank_filter"
                     /\ UNCHANGED result
    /\ UNCHANGED <<op, topScores, itemType, format, profileVars, calls, failed>>
    /\ UNCHANGED outsideEngine

\* return items: the outcome of a direct call, and what getForWeb returns
\* as it is (return users).
RankReturn ==
    /\ pc = "rank_filter"
    /\ i > Len(topScores)
    /\ op \in {"rankItems", "getForWeb"}
    /\ result' = Returned(items)
    /\ pc' = "done"
    /\ UNCHANGED <<users, op, topScores, itemType, format, i, items, lastScore, lastRank,
                   profileVars, calls, failed>>
    /\ UNCHANGED outsideEngine

\* rankItems returns into getUserProfile: const users = await rankItems(...).
RankReturnToProfile ==
    /\ pc = "rank_filter"
    /\ i > Len(topScores)
    /\ op = "getUserProfile"
    /\ ranked' = items
    /\ pc' = "profile"
    /\ UNCHANGED <<users, op, topScores, itemType, format, i, items, lastScore, lastRank,
                   userId, received, given, calls, failed, result>>
    /\ UNCHANGED outsideEngine

\* --------------------------------------------------------------- userScores

EventScores == {-1, 1}

ScoreEvents ==
    [item : {"U1", "thing"}, score : EventScores, from_user_id : {"U2", "U3"},
     channel_id : ChannelIds]

EventLists == SeqsUpTo(ScoreEvents, MaxEvents)

\* const items = []; and the loop starts at the first row.
EnterUserScores(rows) ==
    /\ topScores' = rows
    /\ i' = 1
    /\ items' = Def(<<>>)
    /\ pc' = "us_loop"
    /\ UNCHANGED <<itemType, format, lastScore, lastRank>>

CallUserScores ==
    /\ pc = "idle"
    /\ \E rows \in EventLists : EnterUserScores(rows)
    /\ op' = "userScores"
    /\ calls' = <<>>
    /\ failed' = "none"
    /\ result' = NoResult
    /\ UNCHANGED <<users, profileVars>>
    /\ UNCHANGED outsideEngine

\* The three awaits of a row whose receiver is a user: a1, a2 answer the
\* fetches of the first getUserName, b the fetch of the second (the cache is
\* set by then), c answers conversations.list.  The first one to throw ends
\* the row.
ResolveRow(cache, row, a1, a2, b, c) ==
    LET to == getUserName(cache, row.item, FALSE, a1, a2)
        from == getUserName(to.users, row.from_user_id, FALSE, b, b)
        chan == getChannelName(row.channel_id, c)
    IN  IF to.status = "throw" THEN to
        ELSE IF from.status = "throw" THEN from
        ELSE IF chan.status = "throw" THEN Raise(chan.error, from.users)
        ELSE Return([toUser |-> to.value, fromUser |-> from.value, channel |-> chan.value],
                    from.users)

\* userScores resolving the ids of every row, whatever the receiver is.
UserScoreRowAlwaysResolved(cache, row, a1, a2, b, c) ==
    LET names == ResolveRow(cache, row, a1, a2, b, c) IN
    IF names.status = "throw" THEN names
    ELSE Return([toUser |-> names.value.toUser,
                 fromUser |-> names.value.fromUser,
                 score |-> row.score,
                 channel |-> "#" \o names.value.channel], names.users)

\* One row of userScores: ids are resolved only when the receiver is a user;
\* the row pushed carries the score and the channel behind a '#'.
UserScoreRow(cache, row, a1, a2, b, c) ==
    LET names == IF isUser(row.item)
                 THEN ResolveRow(cache, row, a1, a2, b, c)
                 ELSE Return([toUser |-> row.item, fromUser |-> row.from_user_id,
                              channel |-> row.channel_id], cache)
    IN  IF names.status = "throw" THEN names
        ELSE Return([toUser |-> names.value.toUser,
                     fromUser |-> names.value.fromUser,
                     score |-> row.score,
                     channel |-> "#" \o names.value.channel], names.users)

UsStep ==
    /\ pc = "us_loop"
    /\ i <= Len(topScores)
    /\ \E a1, a2, b, c \in SlackOutcomes :
         LET out == UserScoreRow(users, topScores[i], a1, a2, b, c) IN
         /\ users' = out.users
         /\ IF out.status = "throw"
            THEN /\ result' = Thrown(out.error)
                 /\ pc' = "done"
                 /\ UNCHANGED <<i, items>>
            ELSE /\ items' = Def(Append(Val(items), out.value))
                 /\ i' = i + 1
                 /\ pc' = "us_loop"
                 /\ UNCHANGED result
    /\ UNCHANGED <<op, topScores, itemType, format, lastScore, lastRank, profileVars,
                   calls, failed>>
    /\ UNCHANGED outsideEngine

\* return items: the outcome of a direct call, and what getAllScoresFromUser
\* returns as it is (return users).
UsReturn ==
    /\ pc = "us_loop"
    /\ i > Len(topScores)
    /\ op \in {"userScores", "getAllScoresFromUser"}
    /\ result' = Returned(items)
    /\ pc' = "done"
    /\ UNCHANGED <<users, op, topScores, itemType, format, i, items, lastScore, lastRank,
                   profileVars, calls, failed>>
    /\ UNCHANGED outsideEngine

\* ------------------------------------------- the functions behind the routes

\* A function's first retrieval: when it fails the catch block ends the call.
FirstRetrievalFails(name, call) ==
    /\ op' = name
    /\ calls' = <<call>>
    /\ failed' = call
    /\ result' = Catch("RetrievalFailure")
    /\ pc' = "done"
    /\ UNCHANGED <<topScores, itemType, format, i, items, lastScore, lastRank>>

FirstRetrievalAnswers(name, call) ==
    /\ op' = name
    /\ calls' = <<call>>
    /\ failed' = "none"
    /\ result' = NoResult

\* getForWeb: retrieveTopScores, then rankItems(scores, 'users', 'object').
GetForWeb ==
    /\ pc = "idle"
    /\ \/ FirstRetrievalFails("getForWeb", "retrieveTopScores")
       \/ /\ FirstRetrievalAnswers("getForWeb", "retrieveTopScores")
          /\ \E ts \in TopScoreLists : EnterRankItems(ts, "users", "object")
    /\ UNCHANGED <<users, profileVars>>
    /\ UNCHANGED outsideEngine

ChannelLists == SeqsUpTo(ChannelIds, 1)

\* getForChannels: the channels are returned as retrieved.
GetForChannels ==
    /\ pc = "idle"
    /\ \/ FirstRetrievalFails("getForChannels", "getAllChannels")
       \/ /\ \E channels \in ChannelLists : result' = Returned(Def(channels))
          /\ op' = "getForChannels"
          /\ calls' = <<"getAllChannels">>
          /\ failed' = "none"
          /\ pc' = "done"
          /\ UNCHANGED <<topScores, itemType, format, i, items, lastScore, lastRank>>
    /\ UNCHANGED <<users, profileVars>>
    /\ UNCHANGED outsideEngine

\* getAllScoresFromUser: the rows retrieved go through userScores.
GetAllScoresFromUser ==
    /\ pc = "idle"
    /\ \/ FirstRetrievalFails("getAllScoresFromUser", "getAllScoresFromUser")
       \/ /\ FirstRetrievalAnswers("getAllScoresFromUser", "getAllScoresFromUser")
          /\ \E rows \in EventLists : EnterUserScores(rows)
    /\ UNCHANGED <<users, profileVars>>
    /\ UNCHANGED outsideEngine

\* KarmaFeed rows, as far as the engine reads them: the giver and the
\* timestamp, in hours since 2024-01-01T00:00Z.
Timestamps == {0, 12, 30}
Givers == {"U1", "U2"}
Feeds(givers) == SeqsUpTo([fromUser : givers, timestamp : Timestamps], MaxFeed)

\* getKarmaFeed: the feed is returned as retrieved.
GetKarmaFeed ==
    /\ pc = "idle"
    /\ \/ FirstRetrievalFails("getKarmaFeed", "getKarmaFeed")
       \/ /\ \E feed \in Feeds({"U1"}) : result' = Returned(Def(feed))
          /\ op' = "getKarmaFeed"
          /\ calls' = <<"getKarmaFeed">>
          /\ failed' = "none"
          /\ pc' = "done"
          /\ UNCHANGED <<topScores, itemType, format, i, items, lastScore, lastRank>>
    /\ UNCHANGED <<users, profileVars>>
    /\ UNCHANGED outsideEngine

\* getUserProfile up to its second await: retrieveTopScores(null, null,
\* channel), then rankItems(scores, 'users', 'object').
GetUserProfile ==
    /\ pc = "idle"
    /\ \/ FirstRetrievalFails("getUserProfile", "retrieveTopScores")
       \/ /\ FirstRetrievalAnswers("getUserProfile", "retrieveTopScores")
          /\ \E ts \in TopScoreLists : EnterRankItems(ts, "users", "object")
    /\ UNCHANGED <<users, profileVars>>
    /\ UNCHANGED outsideEngine

\* ------------------------------------------------- getUserProfile, the rest

\* d.timestamp.toISOString().split('T')[0]: the UTC calendar date.
IsoDate(t) == IF t \div 24 = 0 THEN "2024-01-01" ELSE "2024-01-02"

\* new Date(date).getTime(), in hours like the timestamps.
DateTime(date) == IF date = "2024-01-01" THEN 0 ELSE 24

\* let count: Record<string, number>;  -- like countIn and countOut, declared
\* and never assigned.
InitialCount == Undefined

\* count[key] = (count[key] || 0) + 1 on a mapping kept in insertion order.
Increment(count, key) ==
    IF \E k \in 1..Len(count) : count[k].key = key
    THEN [k \in 1..Len(count) |->
            IF count[k].key = key THEN [count[k] EXCEPT !.n = @ + 1] ELSE count[k]]
    ELSE Append(count, [key |-> key, n |-> 1])

\* keys.forEach(key => { count[key] = (count[key] || 0) + 1 }) followed by
\* Object.entries(count): indexing the undefined count throws at the first
\* key, and Object.entries(undefined) throws when there is no key.
RECURSIVE Tally(_, _)
Tally(count, keys) ==
    IF ~IsDef(count) THEN Undefined
    ELSE IF keys = <<>> THEN count
    ELSE Tally(Def(Increment(Val(count), Head(keys))), Tail(keys))

\* karmaScore.feed.map(u => u.fromUser)
GiversIn(feed) == [k \in 1..Len(feed) |-> feed[k].fromUser]

\* feed.map(d => d.timestamp.toISOString().split('T')[0])
DaysIn(feed) == [k \in 1..Len(feed) |-> IsoDate(feed[k].timestamp)]

\* The contribution histogram: one {name, value} per giver of the feed.
KarmaDivided(feed) ==
    LET count == Tally(InitialCount, GiversIn(feed)) IN
    IF IsDef(count)
    THEN Def([k \in 1..Len(Val(count)) |->
                [name |-> Val(count)[k].key, value |-> Val(count)[k].n]])
    ELSE Undefined

\* Count All Received Karma Points by Days.
ChartDatesIn(feed) ==
    LET countIn == Tally(InitialCount, DaysIn(feed)) IN
    IF IsDef(countIn)
    THEN Def([k \in 1..Len(Val(countIn)) |->
                [date |-> Val(countIn)[k].key, received |-> Val(countIn)[k].n, sent |-> 0]])
    ELSE Undefined

\* Count All Sent Karma Points by Days.
ChartDatesOut(feed) ==
    LET countOut == Tally(InitialCount, DaysIn(feed)) IN
    IF IsDef(countOut)
    THEN Def([k \in 1..Len(Val(countOut)) |->
                [date |-> Val(countOut)[k].key, received |-> 0, sent |-> Val(countOut)[k].n]])
    ELSE Undefined

\* ob[k] = ((+ob[k] || 0) + +oa[k]).toString(): the sums are kept as text.
\* The text of a sum reads back as the same number, so the rows are summed as
\* numbers here and written as text once.
RECURSIVE SumByDate(_, _)
SumByDate(combined, rows) ==
    IF rows = <<>> THEN combined
    ELSE LET oa == Head(rows)
             seen == \E k \in 1..Len(combined) : combined[k].date = oa.date
             added == [k \in 1..Len(combined) |->
                         IF combined[k].date = oa.date
                         THEN [date |-> oa.date,
                               received |-> combined[k].received + oa.received,
                               sent |-> combined[k].sent + oa.sent]
                         ELSE combined[k]]
         IN  SumByDate(IF seen THEN added ELSE Append(combined, oa), Tail(rows))

AsText(row) ==
    [date |-> row.date, received |-> ToString(row.received), sent |-> ToString(row.sent)]

\* Combine Sent & Received Karma by Same Days.
CombineDates(sentReceived) ==
    LET summed == SumByDate(<<>>, sentReceived) IN
    [k \in 1..Len(summed) |-> AsText(summed[k])]

\* combineDates.sort((a, b) => new Date(a.date).getTime() - new Date(b.date).getTime()):
\* a stable sort by date.
RECURSIVE SortDates(_)
SortDates(rows) ==
    IF rows = <<>> THEN <<>>
    ELSE LET sorted == SortDates(SubSeq(rows, 1, Len(rows) - 1))
             last == rows[Len(rows)]
             before == {k \in 1..Len(sorted) : DateTime(sorted[k].date) <= DateTime(last.date)}
             n == Cardinality(before)
         IN  SubSeq(sorted, 1, n) \o <<last>> \o SubSeq(sorted, n + 1, Len(sorted))

\* for (const el of users) { if (el.item_id === userId) userRank = el.rank }.
UserRank(rankedItems, id) ==
    LET hits == {k \in 1..Len(rankedItems) : rankedItems[k].item_id = id} IN
    IF hits = {} THEN 0
    ELSE rankedItems[CHOOSE k \in hits : \A h \in hits : h <= k].rank

\* The retrievals of getUserProfile after rankItems, in the order awaited.
ProfileRetrievals ==
    <<"getUserId", "getName", "getAll karmaScore", "getAll karmaGiven",
      "getAll activityChartIn", "getAll activityChartOut", "getAll getAllItems">>

Position(call) ==
    IF \E k \in 1..Len(ProfileRetrievals) : ProfileRetrievals[k] = call
    THEN CHOOSE k \in 1..Len(ProfileRetrievals) : ProfileRetrievals[k] = call
    ELSE 0

\* What getName answers: the name and surname the data source holds.
NameOf(id) == IF id \in SlackMemberIds THEN SlackMembers[id].real_name ELSE ""

Ended(made, failure, outcome) == [calls |-> made, failed |-> failure, result |-> outcome]

\* Lines 339-387 once every retrieval has answered: the histogram, the two
\* daily series, their merge, the sort, and the record returned.
AssembleProfile(rankedItems, id, name, rec, giv, fromTo) ==
    LET karmaDivided == KarmaDivided(rec)
        chartDatesIn == ChartDatesIn(rec)
        chartDatesOut == ChartDatesOut(giv)
        page == IF fromTo = "from" THEN rec ELSE giv
    IN  IF ~IsDef(karmaDivided) \/ ~IsDef(chartDatesIn) \/ ~IsDef(chartDatesOut)
        THEN Catch("TypeError: count is undefined")
        ELSE Returned(Def([feed |-> page,
                           count |-> Len(page),
                           nameSurname |-> name,
                           allKarma |-> Len(rec),
                           karmaGiven |-> Len(giv),
                           userRank |-> UserRank(rankedItems, id),
                           karmaDivided |-> Val(karmaDivided),
                           activity |-> SortDates(CombineDates(
                                            Val(chartDatesIn) \o Val(chartDatesOut)))]))

\* Lines 322-387: failAt names the retrieval that fails, if the call gets
\* that far.  Iterating the undefined users throws before getName is called.
ProfileRest(rankedItems, id, rec, giv, failAt, fromTo) ==
    IF failAt = "getUserId"
    THEN Ended(<<"getUserId">>, failAt, Catch("RetrievalFailure"))
    ELSE IF ~IsDef(rankedItems)
    THEN Ended(<<"getUserId">>, "none", Catch("TypeError: users is not iterable"))
    ELSE IF Position(failAt) > 0
    THEN Ended(SubSeq(ProfileRetrievals, 1, Position(failAt)), failAt,
               Catch("RetrievalFailure"))
    ELSE Ended(ProfileRetrievals, "none",
               AssembleProfile(Val(rankedItems), id, NameOf(id), rec, giv, fromTo))

ProfileAssemble ==
    /\ pc = "profile"
    /\ \E id \in UserIds, rec \in Feeds(Givers), giv \in Feeds({"U3"}),
          failAt \in {"none"} \cup {ProfileRetrievals[k] : k \in 1..Len(ProfileRetrievals)},
          fromTo \in {"from", "to"} :
         LET end == ProfileRest(ranked, id, rec, giv, failAt, fromTo) IN
         /\ userId' = IF failAt = "getUserId" THEN Undefined ELSE Def(id)
         /\ received' = rec
         /\ given' = giv
         /\ calls' = calls \o end.calls
         /\ failed' = end.failed
         /\ result' = end.result
    /\ pc' = "done"
    /\ UNCHANGED <<users, op, topScores, itemType, format, i, items, lastScore, lastRank,
                   ranked>>
    /\ UNCHANGED outsideEngine

\* ----------------------------------------------------------------- the system

\* The caller takes the outcome; the next call can be served.
Finish ==
    /\ pc = "done"
    /\ pc' = "idle"
    /\ op' = "none"
    /\ topScores' = <<>>
    /\ itemType' = "users"
    /\ format' = "slack"
    /\ i' = 1
    /\ items' = Undefined
    /\ lastScore' = Undefined
    /\ lastRank' = Undefined
    /\ ranked' = Undefined
    /\ userId' = Undefined
    /\ received' = <<>>
    /\ given' = <<>>
    /\ calls' = <<>>
    /\ failed' = "none"
    /\ result' = NoResult
    /\ UNCHANGED users
    /\ UNCHANGED outsideEngine

Next ==
    \/ CallRankItems
    \/ RankFilter
    \/ RankBody
    \/ RankReturn
    \/ RankReturnToProfile
    \/ CallUserScores
    \/ UsStep
    \/ UsReturn
    \/ GetForWeb
    \/ GetForChannels
    \/ GetAllScoresFromUser
    \/ GetKarmaFeed
    \/ GetUserProfile
    \/ ProfileAssemble
    \/ Finish

Spec == Init /\ [][Next]_vars

\* ------------------------------------------- slack module, call by call

\* The engine's variables, which the slack module's calls leave alone.
engineVars ==
    <<pc, op, topScores, itemType, format, i, items, lastScore, lastRank, ranked, userId,
      received, given, calls, failed, result>>

\* Where caller c stands once getUserList has handed it the map list.  A call
\* of getUserList ends with it; getUserName looks its user up in it and, when
\* the id is not a key of it, awaits slack.users.list() again.
AfterList(caller, list) ==
    IF caller.fn = "getUserList"
    THEN [caller EXCEPT !.pc = "done", !.list = Def(list), !.out = Returned(Def(list))]
    ELSE IF caller.userId \in list
         THEN [caller EXCEPT !.pc = "done", !.list = Def(list),
                             !.out = Returned(Def(DisplayName(SlackMembers[caller.userId],
                                                              caller.username)))]
         ELSE [caller EXCEPT !.pc = "refetching", !.list = Def(list)]

\* getUserList up to its await: the cached map is returned when there is one;
\* otherwise users = {} is stored and slack.users.list() is awaited.
EnterGetUserList(c, caller) ==
    IF IsDef(users)
    THEN /\ callers' = [callers EXCEPT ![c] = AfterList(caller, Val(users))]
         /\ UNCHANGED <<users, listFetches>>
    ELSE /\ users' = Def({})
         /\ listFetches' = listFetches + 1
         /\ callers' = [callers EXCEPT ![c] = [caller EXCEPT !.pc = "fetching"]]

\* A call of the exported getUserList.
CallGetUserList(c) ==
    /\ callers[c].pc = "idle"
    /\ EnterGetUserList(c, [IdleCaller EXCEPT !.fn = "getUserList"])
    /\ UNCHANGED <<engineVars, appVars>>

\* A call of the exported getUserName, which starts by awaiting getUserList().
CallGetUserName(c) ==
    /\ callers[c].pc = "idle"
    /\ \E id \in UserIds, handle \in BOOLEAN :
          EnterGetUserList(c, [IdleCaller EXCEPT !.fn = "getUserName", !.userId = id,
                                                !.username = handle])
    /\ UNCHANGED <<engineVars, appVars>>

\* slack.users.list() awaited by getUserList settles: on ok the members are
\* stored in the map users refers to and the map is returned; otherwise
\* getUserList throws, and so does the getUserName that awaited it.
UserListAnswered(c) ==
    /\ callers[c].pc = "fetching"
    /\ \E o \in SlackOutcomes :
          CASE o = "ok" ->
                 /\ users' = Def(Val(users) \cup SlackMemberIds)
                 /\ callers' = [callers EXCEPT
                                  ![c] = AfterList(callers[c], Val(users) \cup SlackMemberIds)]
            [] o = "notok" ->
                 /\ callers' = [callers EXCEPT ![c] = [callers[c] EXCEPT
                        !.pc = "done",
                        !.out = Rejected("Error occurred retrieving user list from Slack.")]]
                 /\ UNCHANGED users
            [] OTHER ->
                 /\ callers' = [callers EXCEPT ![c] = [callers[c] EXCEPT
                        !.pc = "done", !.out = Rejected("SlackRejected")]]
                 /\ UNCHANGED users
    /\ UNCHANGED <<listFetches, engineVars, appVars>>

\* slack.users.list() awaited by getUserName settles: the user is looked for
\* in userList.members, which a not-ok answer does not carry.
UserRefetchAnswered(c) ==
    /\ callers[c].pc = "refetching"
    /\ \E o \in SlackOutcomes :
          callers' = [callers EXCEPT ![c] = [callers[c] EXCEPT
              !.pc = "done",
              !.out = CASE o = "reject" -> Rejected("SlackRejected")
                        [] o = "notok" -> Rejected("TypeError: userList.members is undefined")
                        [] OTHER ->
                             IF callers[c].userId \in SlackMemberIds
                             THEN Returned(Def(DisplayName(SlackMembers[callers[c].userId],
                                                           callers[c].username)))
                             ELSE Returned(Def("(unknown)"))]]
    /\ UNCHANGED <<users, listFetches, engineVars, appVars>>

\* The caller has taken the outcome of its call and may call again.
CallerDone(c) ==
    /\ callers[c].pc = "done"
    /\ callers' = [callers EXCEPT ![c] = IdleCaller]
    /\ UNCHANGED <<users, listFetches, engineVars, appVars>>

SlackNext ==
    \/ \E c \in Callers : CallGetUserList(c)
    \/ \E c \in Callers : CallGetUserName(c)
    \/ \E c \in Callers : UserListAnswered(c)
    \/ \E c \in Callers : UserRefetchAnswered(c)
    \/ \E c \in Callers : CallerDone(c)

SlackSpec == Init /\ [][SlackNext]_vars

\* ------------------------------------------------- app module: handlePost

\* A token is the sequence of its characters.
Whitespace == {" ", "\t", "\n"}

\* The placeholder 'xxxxxxxxxxxxxxxxxxxxxxxx' of validateToken.
PlaceholderLength == 24
DefaultToken == [k \in 1..PlaceholderLength |-> "x"]

\* The verification token Slack sends with what it delivers.
SlackToken == <<"t", "0", "k">>

\* What process.env can hold for SLACK_VERIFICATION_TOKEN: nothing, an empty
\* or blank string, the placeholder, Slack's token.
ServerTokens == {Undefined, Def(<<>>), Def(<<" ">>), Def(DefaultToken), Def(SlackToken)}

\* What request.body.token can be.
SuppliedTokens == {Undefined, Def(SlackToken), Def(<<"b", "a", "d">>), Def(DefaultToken)}

RECURSIVE trimStart(_)
trimStart(s) == IF s # <<>> /\ Head(s) \in Whitespace THEN trimStart(Tail(s)) ELSE s

RECURSIVE trimEnd(_)
trimEnd(s) ==
    IF s # <<>> /\ s[Len(s)] \in Whitespace THEN trimEnd(SubSeq(s, 1, Len(s) - 1)) ELSE s

\* String.prototype.trim
trim(s) == trimEnd(trimStart(s))

HTTP_403 == 403
HTTP_500 == 500
\* The status of a response whose status was not set.
HTTP_200 == 200

\* validateToken: serverToken.trim() throws when the token is undefined;
\* a blank or placeholder server token is an error 500, a supplied token
\* other than the server's an error 403, anything else is valid.
validateToken(suppliedToken, token) ==
    IF ~IsDef(token)
    THEN [kind |-> "throw", error |-> 0, message |-> "TypeError: serverToken is undefined"]
    ELSE IF trim(Val(token)) = <<>> \/ Val(token) = DefaultToken
    THEN [kind |-> "error", error |-> HTTP_500, message |-> "Internal server error."]
    ELSE IF suppliedToken # token
    THEN [kind |-> "error", error |-> HTTP_403, message |-> "Access denied."]
    ELSE [kind |-> "true", error |-> 0, message |-> ""]

\* response.status(code).send(body)
Sent(code, body) == [kind |-> "send", status |-> code, body |-> body, event |-> "none"]

\* events.handleEvent(request.body.event, request)
Handled(event) == [kind |-> "handleEvent", status |-> 0, body |-> "", event |-> event]

\* handlePost: what it does, in order, and how it ends.  It returns false
\* unless it ends with the call of events.handleEvent, whose value it returns.
handlePost(request, token) ==
    IF IsDef(request.challenge)
    THEN [effects |-> <<Sent(HTTP_200, Val(request.challenge))>>, returned |-> "false"]
    ELSE LET validation == validateToken(request.token, token) IN
         IF validation.kind = "throw"
         THEN [effects |-> <<>>, returned |-> "throw"]
         ELSE IF validation.kind = "error"
         THEN [effects |-> <<Sent(validation.error, validation.message)>>,
               returned |-> "false"]
         ELSE IF IsDef(request.retry)
         THEN [effects |-> <<Sent(HTTP_200, "")>>, returned |-> "false"]
         ELSE [effects |-> <<Sent(HTTP_200, ""), Handled(request.event)>>,
               returned |-> "handleEvent"]

\* const { SLACK_VERIFICATION_TOKEN } = process.env, when the module loads.
ReadEnv ==
    /\ ~envRead
    /\ envRead' = TRUE
    /\ \E t \in ServerTokens : serverToken' = t
    /\ UNCHANGED <<users, engineVars, callers, listFetches, deliveries, handledTimes, post, send>>

\* What Express does after the route handler: an exception thrown by the
\* handler is answered by Express' error handler with a 500.
ErrorHandler(done) ==
    IF done.returned = "throw" THEN <<Sent(HTTP_500, "TypeError")>> ELSE <<>>

\* Express serves one POST request with handlePost.
ServePost(request) ==
    LET done == handlePost(request, serverToken) IN
    /\ envRead
    /\ deliveries[request.event] < MaxDeliveries
    /\ deliveries' = [deliveries EXCEPT ![request.event] = @ + 1]
    /\ handledTimes' =
          IF \E k \in 1..Len(done.effects) : done.effects[k].kind = "handleEvent"
          THEN [handledTimes EXCEPT ![request.event] = @ + 1]
          ELSE handledTimes
    /\ post' = [served |-> TRUE, challenge |-> request.challenge, token |-> request.token,
                retry |-> request.retry, event |-> request.event,
                effects |-> done.effects \o ErrorHandler(done), returned |-> done.returned]
    /\ UNCHANGED <<users, engineVars, callers, listFetches, envRead, serverToken, send>>

\* Slack delivers an event: the first request carries no x-slack-retry-num
\* header, every retry of it carries the number of the retry.
SlackDelivers ==
    \E e \in SlackEvents :
        ServePost([challenge |-> Undefined, token |-> Def(SlackToken),
                   retry |-> IF deliveries[e] = 0 THEN Undefined ELSE Def(deliveries[e]),
                   event |-> e])

\* Any client posts: a url_verification challenge, or an event with whatever
\* token and headers it chooses.
ClientPosts ==
    \E ch \in {Undefined, Def("3eZbrw1aBm2rZgRNFdxV2595E9CY3gmdALWMmHkvFXO7tYXAYM8P")},
       tok \in SuppliedTokens, retry \in {Undefined, Def(1)} :
        ServePost([challenge |-> ch, token |-> tok, retry |-> retry, event |-> "forged"])

\* ------------------------------- slack module: sendMessage, sendEphemeral

\* What 'text' can be: message text, or a message payload.
TextKinds == {"string", "object"}

\* The keys of the payload posted: text is dropped and the payload given as
\* 'text' merged in when it is an object.
Payload(keys, kind) ==
    IF kind = "object" THEN (keys \ {"text"}) \cup {"attachments"} ELSE keys

\* The function builds the payload, creates the promise it returns and calls
\* Slack from the promise's executor.
StartSend(fn, keys) ==
    /\ send.pc = "idle"
    /\ \E kind \in TextKinds :
         send' = [pc |-> "posting", fn |-> fn, payload |-> Payload(keys, kind),
                  answer |-> "none", promise |-> "pending"]
    /\ UNCHANGED <<users, engineVars, callers, listFetches, envRead, serverToken, deliveries,
                   handledTimes, post>>

CallSendMessage == StartSend("sendMessage", {"channel", "text"})

CallSendEphemeral == StartSend("sendEphemeral", {"channel", "text", "user"})

\* The reaction registered with then(): it runs when the Slack call fulfils,
\* and rejects the promise on a not-ok answer, resolves it otherwise.  No
\* reaction is registered for the Slack call rejecting.
Settle(o) ==
    CASE o = "ok" -> "resolved"
      [] o = "notok" -> "rejected"
      [] OTHER -> "pending"

\* slack.chat.postMessage / postEphemeral settles and its reactions run.
ChatAnswered ==
    /\ send.pc = "posting"
    /\ \E o \in SlackOutcomes :
         send' = [send EXCEPT !.pc = "answered", !.answer = o, !.promise = Settle(o)]
    /\ UNCHANGED <<users, engineVars, callers, listFetches, envRead, serverToken, deliveries,
                   handledTimes, post>>

\* The caller lets go of the promise; another message may be sent.
SendForgotten ==
    /\ send.pc = "answered"
    /\ send' = NoSend
    /\ UNCHANGED <<users, engineVars, callers, listFetches, envRead, serverToken, deliveries,
                   handledTimes, post>>

AppNext ==
    \/ ReadEnv
    \/ SlackDelivers
    \/ ClientPosts
    \/ CallSendMessage
    \/ CallSendEphemeral
    \/ ChatAnswered
    \/ SendForgotten

AppSpec == Init /\ [][AppNext]_vars

\* ------------------------------------------------------------------ claims

\* The entity is of the kind the pass ranks.
OfKind(item, type) == isUser(item) <=> type = "users"

\* Errors of the Slack calls behind getUserName and getChannelName.
SlackErrors ==
    {"SlackRejected", "Error occurred retrieving user list from Slack.",
     "TypeError: userList.members is undefined",
     "TypeError: channelList.channels is undefined", "TypeError: channel[0] is undefined"}

\* A direct call of rankItems in 'object' format has ended, and no Slack call
\* failed under it.
RankItemsEnded ==
    /\ pc = "done"
    /\ op = "rankItems"
    /\ format = "object"
    /\ result.error \notin SlackErrors

\* C1: rankItems implements standard competition ranking.  For a non-empty
\* list of rows of the requested kind in non-increasing score order, the
\* call returns one entry per row; an entry's rank is the previous entry's
\* rank when the two scores are equal, and otherwise its position in the
\* output (entries emitted so far plus one), so the first rank is 1.
C1_CompetitionRanking ==
    (/\ RankItemsEnded
     /\ Len(topScores) > 0
     /\ \A k \in 1..Len(topScores) : OfKind(topScores[k].item, itemType))
    => /\ result.status = "return"
       /\ IsDef(result.value)
       /\ Len(Val(result.value)) = Len(topScores)
       /\ \A k \in 1..Len(topScores) :
            Val(result.value)[k].rank =
                IF k > 1 /\ topScores[k].score = topScores[k - 1].score
                THEN Val(result.value)[k - 1].rank
                ELSE k

\* C2: rankItems emits only entities of the requested kind.  A row of the
\* other kind is skipped by the filter: it never reaches the loop body that
\* ranks and emits, and no entry of the output carries its id.
C2_OnlyRequestedKind ==
    /\ pc = "rank_body" => OfKind(topScores[i].item, itemType)
    /\ (pc \in {"rank_filter", "rank_body"} /\ format = "object" /\ IsDef(items))
       => \A k \in 1..Len(Val(items)) : OfKind(Val(items)[k].item_id, itemType)

\* C3: for a list in non-increasing score order that holds an entity of the
\* requested kind, rankItems returns a list no longer than its input, whose
\* ranks never decrease from one entry to the next.
C3_LengthAndMonotonic ==
    (/\ RankItemsEnded
     /\ \E k \in 1..Len(topScores) : OfKind(topScores[k].item, itemType))
    => /\ result.status = "return"
       /\ IsDef(result.value)
       /\ Len(Val(result.value)) <= Len(topScores)
       /\ \A k \in 1..(Len(Val(result.value)) - 1) :
            Val(result.value)[k].rank <= Val(result.value)[k + 1].rank

\* getUserProfile has ended and each retrieval it awaited answered.
ProfileEnded ==
    /\ pc = "done"
    /\ op = "getUserProfile"
    /\ failed = "none"
    /\ result.error \notin SlackErrors

\* The profile returned, when one is.
Profile == Val(result.value)

DatesOf(feed) == {IsoDate(feed[k].timestamp) : k \in 1..Len(feed)}
CountOn(feed, date) == Cardinality({k \in 1..Len(feed) : IsoDate(feed[k].timestamp) = date})
GiversOf(feed) == {feed[k].fromUser : k \in 1..Len(feed)}
CountFrom(feed, giver) == Cardinality({k \in 1..Len(feed) : feed[k].fromUser = giver})

RECURSIVE SumValues(_)
SumValues(pairs) == IF pairs = <<>> THEN 0 ELSE Head(pairs).value + SumValues(Tail(pairs))

\* C4: when some date occurs in both ledgers, the merged activity has, for
\* each date of either ledger, a row whose received field is the integer
\* count of that date in the received ledger and whose sent field is the
\* integer count of that date in the given ledger (0 when the date is in one
\* ledger only).
C4_MergeLaw ==
    (ProfileEnded /\ DatesOf(received) \cap DatesOf(given) # {})
    => /\ IsDef(result.value)
       /\ \A date \in DatesOf(received) \cup DatesOf(given) :
            \E k \in 1..Len(Profile.activity) :
               /\ Profile.activity[k].date = date
               /\ Profile.activity[k].received = CountOn(received, date)
               /\ Profile.activity[k].sent = CountOn(given, date)

\* C5: when the two ledgers span more than one calendar date, the activity
\* list has exactly one entry per date of the received or the given ledger,
\* none for another date, in ascending date order.
C5_ActivityDates ==
    (ProfileEnded /\ Cardinality(DatesOf(received) \cup DatesOf(given)) > 1)
    => /\ IsDef(result.value)
       /\ {Profile.activity[k].date : k \in 1..Len(Profile.activity)}
              = DatesOf(received) \cup DatesOf(given)
       /\ \A a, b \in 1..Len(Profile.activity) :
            a < b => DateTime(Profile.activity[a].date) < DateTime(Profile.activity[b].date)

\* C6: karmaDivided has exactly one {name, value} pair per distinct giver of
\* the received ledger, each value counts the giver's events, and the values
\* add up to the length of the ledger, the empty ledger included.
C6_Histogram ==
    ProfileEnded
    => /\ IsDef(result.value)
       /\ Len(Profile.karmaDivided) = Cardinality(GiversOf(received))
       /\ \A g \in GiversOf(received) :
            \E k \in 1..Len(Profile.karmaDivided) :
               /\ Profile.karmaDivided[k].name = g
               /\ Profile.karmaDivided[k].value = CountFrom(received, g)
       /\ SumValues(Profile.karmaDivided) = Len(received)

\* C7: userRank is the rank of the leaderboard entry whose item_id is the
\* id resolved for the entity, and 0 when the leaderboard has no such entry.
C7_UserRank ==
    ProfileEnded
    => /\ IsDef(result.value)
       /\ IsDef(ranked)
       /\ IF \E k \in 1..Len(Val(ranked)) : Val(ranked)[k].item_id = Val(userId)
          THEN \E k \in 1..Len(Val(ranked)) :
                  /\ Val(ranked)[k].item_id = Val(userId)
                  /\ Profile.userRank = Val(ranked)[k].rank
          ELSE Profile.userRank = 0

\* The display name Slack holds for a user id: the real name, the handle
\* when there is no real name, '(unknown)' for an id that is not a member.
ExpectedName(id) ==
    CASE id = "U1" -> "Alice A"
      [] id = "U2" -> "bob"
      [] OTHER -> "(unknown)"

\* The name Slack holds for a channel id, behind a '#'.
ExpectedChannel(id) == IF id = "C1" THEN "#general" ELSE "#(unknown)"

\* The rows userScores returned are the rows C8 describes.
C8_RowsAsClaimed ==
    /\ IsDef(result.value)
    /\ Len(Val(result.value)) = Len(topScores)
    /\ \A k \in 1..Len(topScores) :
         LET row == topScores[k]
             out == Val(result.value)[k]
         IN  /\ out.score = row.score
             /\ IF isUser(row.item)
                THEN /\ out.toUser = ExpectedName(row.item)
                     /\ out.fromUser = ExpectedName(row.from_user_id)
                     /\ out.channel = ExpectedChannel(row.channel_id)
                ELSE /\ out.toUser = row.item
                     /\ out.fromUser = row.from_user_id

C9_FailurePropagates ==
    (pc = "done" /\ failed # "none") => result.status = "throw"

\* C9 as amended: when a retrieval fails, the engine call logs the error and
\* returns undefined, and the failed retrieval is the last collaborator it
\* calls: it is called once and nothing is retried.
C9_FailureLoggedNotRetried ==
    (pc = "done" /\ failed # "none")
    => /\ result.status = "return"
       /\ result.value = Undefined
       /\ result.error = "RetrievalFailure"
       /\ calls[Len(calls)] = failed
       /\ Cardinality({k \in 1..Len(calls) : calls[k] = failed}) = 1

\* C9 witness: getForWeb has ended after retrieveTopScores failed.
C9_Witness ==
    /\ pc = "done"
    /\ op = "getForWeb"
    /\ failed = "retrieveTopScores"

\* C10: getUserProfile returns no partial profile.  When one of its
\* retrievals failed the result holds no profile field, and a profile is
\* returned only after every retrieval answered.
C10_NoPartialProfile ==
    (pc = "done" /\ op = "getUserProfile")
    => /\ failed # "none" => result.value = Undefined
       /\ IsDef(result.value)
          => /\ failed = "none"
             /\ calls = <<"retrieveTopScores">> \o ProfileRetrievals

\* C10 witness: getUserProfile has ended after its second retrieval,
\* getUserId, failed.
C10_Witness ==
    /\ pc = "done"
    /\ op = "getUserProfile"
    /\ failed = "getUserId"
    /\ Len(calls) = 2

\* The name the claim has getUserName return.
ExpectedDisplayName(id, handle) ==
    IF id \notin SlackMemberIds THEN "(unknown)"
    ELSE IF handle \/ SlackMembers[id].real_name = "" THEN SlackMembers[id].name
    ELSE SlackMembers[id].real_name

\* C11: getUserName never throws: every call of it that has ended returned,
\* with the real name of a known user, or the handle when the handle was
\* asked for or no real name is on file, and '(unknown)' for an id Slack does
\* not know.
C11_GetUserNameNeverThrows ==
    \A c \in Callers :
        (callers[c].pc = "done" /\ callers[c].fn = "getUserName")
            => /\ callers[c].out.status = "return"
               /\ callers[c].out.value =
                      <<ExpectedDisplayName(callers[c].userId, callers[c].username)>>

\* With every users.list call answering ok the names are the claimed ones.
C11_NamesWhenSlackAnswers ==
    \A c \in Callers :
        (callers[c].pc = "done" /\ callers[c].fn = "getUserName"
           /\ callers[c].out.status = "return")
            => callers[c].out.value =
                  <<ExpectedDisplayName(callers[c].userId, callers[c].username)>>

\* The cache holds every member of the team.
ListFilled == IsDef(users) /\ SlackMemberIds \subseteq Val(users)

\* C14: under every interleaving of getUserList calls, the map a call
\* returns contains every member of the team's user list, and once a fetch
\* has succeeded getUserList does not fetch the list from Slack again.
C14_WholeListFetchedOnce ==
    /\ [](\A c \in Callers :
             IsDef(callers[c].list) => SlackMemberIds \subseteq Val(callers[c].list))
    /\ [][ListFilled => listFetches' = listFetches]_vars

\* getUserList fetches the list from Slack once at most.
C14_OneFetch == listFetches <= 1

\* C12: a channel id that is absent from Slack's conversation list does not
\* make getChannelName fail: no userScores call is ended by the lookup of
\* such an id, and the row of a returned call carries '#(unknown)' for it.
C12_UnknownChannelSentinel ==
    (pc = "done" /\ op = "userScores")
    => /\ result.error # "TypeError: channel[0] is undefined"
       /\ result.status = "return"
          => \A k \in 1..Len(topScores) :
                (isUser(topScores[k].item) /\ topScores[k].channel_id \notin DOMAIN SlackChannels)
                   => Val(result.value)[k].channel = "#(unknown)"

\* handlePost handed the event of the request served last to handleEvent.
EventHanded == \E k \in 1..Len(post.effects) : post.effects[k].kind = "handleEvent"

\* The server token is unusable: not set, blank, or the placeholder.
BadServerToken ==
    \/ ~IsDef(serverToken)
    \/ trim(Val(serverToken)) = <<>>
    \/ Val(serverToken) = DefaultToken

\* handlePost answered the request served last with this status.
Answered(code) ==
    \E k \in 1..Len(post.effects) :
        post.effects[k].kind = "send" /\ post.effects[k].status = code

\* What C13 says of the request served last.
PostGate ==
    /\ EventHanded <=> /\ ~IsDef(post.challenge)
                       /\ ~BadServerToken
                       /\ post.token = serverToken
                       /\ ~IsDef(post.retry)
    /\ ~EventHanded => post.returned = "false"
    /\ (~IsDef(post.challenge) /\ BadServerToken) => Answered(500)
    /\ (~IsDef(post.challenge) /\ ~BadServerToken /\ post.token # serverToken)
          => Answered(403)
    /\ EventHanded
          => \E j, k \in 1..Len(post.effects) :
                /\ j < k
                /\ post.effects[j].kind = "send"
                /\ post.effects[j].status = 200
                /\ post.effects[k].kind = "handleEvent"
    /\ \A e \in SlackEvents : handledTimes[e] <= 1

\* C13: handlePost hands the event to events.handleEvent only when the
\* request carries no challenge, the supplied token equals a server token
\* that is neither blank nor the placeholder, and there is no
\* x-slack-retry-num header; otherwise the event is not handled and
\* handlePost returns false.  A bad server token is answered 500, a
\* mismatching supplied token 403, the 200 of a handled event is sent before
\* the event is handled, and no event Slack delivers is handled twice.
C13_HandlePostGate == post.served => PostGate

\* The same when SLACK_VERIFICATION_TOKEN is set in the environment.
C13_GateWhenTokenSet == (post.served /\ IsDef(serverToken)) => PostGate

\* C15: the promise sendMessage / sendEphemeral returned is settled once the
\* Slack call has settled and its reactions have run: resolved when Slack
\* answered ok, rejected when it answered not-ok or the call itself failed.
C15_SendSettles ==
    send.pc = "answered"
    => /\ send.promise \in {"resolved", "rejected"}
       /\ send.promise = "resolved" <=> send.answer = "ok"

\* The promise is settled as claimed whenever the Slack call fulfils.
C15_SettlesWhenSlackFulfils ==
    (send.pc = "answered" /\ send.answer # "reject")
    => /\ send.promise \in {"resolved", "rejected"}
       /\ send.promise = "resolved" <=> send.answer = "ok"
====
